---- MODULE Spec2Model ----
(***************************************************************************)
(* A model of the gdbstub crate: the RSP packet engine GdbStub::poll, the  *)
(* command parser Command::parse, the response framers and the hex / byte  *)
(* channel helpers.                                                        *)
(*                                                                         *)
(* Bytes are the integers 0..255 (their ASCII codes).  Fixed-width         *)
(* unsigned integers (u8 aside) are kept as little-endian byte sequences   *)
(* of their width (u32: 4 bytes, u64: 8 bytes, u128: 16 bytes), so that    *)
(* overflow, byte swapping and the register wire layout are computed the   *)
(* way the code computes them.                                             *)
(***************************************************************************)
EXTENDS Integers, Sequences, FiniteSets, TLC

(***************************************************************************)
(* Byte literals used by the code.                                         *)
(***************************************************************************)
Ch ==
  [ dollar |-> 36, hash |-> 35, plus |-> 43, minus |-> 45, comma |-> 44,
    colon |-> 58, semi |-> 59, quest |-> 63, d0 |-> 48, d1 |-> 49,
    c |-> 99, g |-> 103, G |-> 71, k |-> 107, m |-> 109, M |-> 77,
    H |-> 72, s |-> 115, v |-> 118, S |-> 83, O |-> 79, K |-> 75,
    E |-> 69, d5 |-> 53, q |-> 113, z |-> 122, f |-> 102, hi |-> 255 ]

(***************************************************************************)
(* Bounds of the checked instances.                                        *)
(***************************************************************************)
\* largest start address (and largest announced length) of the generated
\* m / M packets
MaxLen == 2

(***************************************************************************)
(* Generic sequence helpers.                                               *)
(***************************************************************************)
Slice(s, a, b) == IF a > b THEN <<>> ELSE SubSeq(s, a, b)

RECURSIVE SumRange(_, _, _)
\* the sum modulo 256 of s[a..b], split in halves to keep the recursion flat
SumRange(s, a, b) ==
  IF a > b THEN 0
  ELSE IF a = b THEN s[a] % 256
  ELSE LET mid == (a + b) \div 2
       IN  (SumRange(s, a, mid) + SumRange(s, mid + 1, b)) % 256

SumBytes(s) == SumRange(s, 1, Len(s))

\* u8::wrapping_add
WrappingAdd(a, b) == (a + b) % 256

(***************************************************************************)
(* Fixed-width unsigned integers as little-endian byte sequences.          *)
(***************************************************************************)
\* the sequence f[1], ..., f[n] of a function on 1..n
Tup(f, n) == SubSeq(f, 1, n)

UZero(w) == Tup([i \in 1..w |-> 0], w)

\* the number n < 65536 in w bytes
USmall(n, w) ==
  Tup([i \in 1..w |->
         IF i = 1 THEN n % 256 ELSE IF i = 2 THEN (n \div 256) % 256 ELSE 0], w)

UIsZero(v) == \A i \in 1..Len(v) : v[i] = 0

\* v * 16 + d, as checked_mul(16) followed by checked_add(d)
UShlAddOverflows(v) == v[Len(v)] \div 16 # 0

UShlAdd(v, d) ==
  Tup([i \in 1..Len(v) |->
         (v[i] % 16) * 16 + (IF i = 1 THEN d ELSE v[i - 1] \div 16)], Len(v))

RECURSIVE UCarry(_, _, _)
\* carry into byte position i of a + b
UCarry(a, b, i) ==
  IF i = 1 THEN 0 ELSE (a[i - 1] + b[i - 1] + UCarry(a, b, i - 1)) \div 256

\* wrapping a + b and whether it overflowed the width
UAdd(a, b) ==
  Tup([i \in 1..Len(a) |-> (a[i] + b[i] + UCarry(a, b, i)) % 256], Len(a))

UAddOverflows(a, b) == UCarry(a, b, Len(a) + 1) # 0

RECURSIVE ULessFrom(_, _, _)
ULessFrom(a, b, i) ==
  IF i = 0 THEN FALSE
  ELSE IF a[i] # b[i] THEN a[i] < b[i]
  ELSE ULessFrom(a, b, i - 1)

ULess(a, b) == ULessFrom(a, b, Len(a))

\* u32::from_be on a host of the given endianness
Reverse(s) == Tup([i \in 1..Len(s) |-> s[Len(s) + 1 - i]], Len(s))

FromBe(v, hostBigEndian) == IF hostBigEndian THEN v ELSE Reverse(v)

(***************************************************************************)
(* Text helpers of the standard library, as the code calls them.           *)
(***************************************************************************)
\* char::to_digit(16); -1 when the byte is not a hex digit
HexVal(b) ==
  IF b \in 48..57 THEN b - 48
  ELSE IF b \in 97..102 THEN b - 87
  ELSE IF b \in 65..70 THEN b - 55
  ELSE -1

\* str::from_utf8 on the bytes the model uses: ASCII bytes and bytes that
\* are never legal in UTF-8 (0xF8..0xFF).  The number of leading valid bytes.
RECURSIVE Utf8ValidUpTo(_)
Utf8ValidUpTo(s) ==
  IF s = <<>> \/ Head(s) >= 128 THEN 0 ELSE 1 + Utf8ValidUpTo(Tail(s))

Utf8Ok(s) == Utf8ValidUpTo(s) = Len(s)

RECURSIVE RadixDigits(_, _)
\* accumulate the digits into acc; ok is FALSE on a bad digit or overflow
RadixDigits(digits, acc) ==
  IF digits = <<>> THEN [ok |-> TRUE, val |-> acc]
  ELSE IF HexVal(Head(digits)) < 0 \/ UShlAddOverflows(acc)
       THEN [ok |-> FALSE, val |-> acc]
       ELSE RadixDigits(Tail(digits), UShlAdd(acc, HexVal(Head(digits))))

\* uN::from_str_radix(s, 16) for an unsigned type of w bytes: an optional
\* leading '+', then at least one digit
FromStrRadix(s, w) ==
  LET digits == IF s # <<>> /\ Head(s) = Ch.plus THEN Tail(s) ELSE s
  IN  IF digits = <<>> THEN [ok |-> FALSE, val |-> UZero(w)]
      ELSE RadixDigits(digits, UZero(w))

\* u8::from_str_radix(s, 16) as a plain number
FromStrRadixU8(s) ==
  LET r == FromStrRadix(s, 1) IN [ok |-> r.ok, val |-> r.val[1]]

(***************************************************************************)
(* comm.rs: hex output.                                                    *)
(***************************************************************************)
HexDigitLower(n) == IF n < 10 THEN 48 + n ELSE 87 + n

\* write_hex with the format "{:02X}"
WriteHexUpper(byte) ==
  << IF byte \div 16 < 10 THEN 48 + (byte \div 16) ELSE 55 + (byte \div 16),
     IF byte % 16 < 10 THEN 48 + (byte % 16) ELSE 55 + (byte % 16) >>

\* Comm::write_hex: the two bytes written for one byte ("{:02x}")
WriteHex(byte) == << HexDigitLower(byte \div 16), HexDigitLower(byte % 16) >>

\* Comm::write_all_hex: write_hex of every byte in order
WriteAllHex(data) ==
  Tup([i \in 1..(2 * Len(data)) |-> WriteHex(data[(i + 1) \div 2])[2 - (i % 2)]],
      2 * Len(data))

(***************************************************************************)
(* utils.rs: hex_decode_in_place.                                          *)
(***************************************************************************)
\* the loop body reading the pair at i instead of 2i
HexDecodeAtUnscaled(bytes, i) ==
  LET pair == Slice(bytes, i + 1, i + 2)
      r    == FromStrRadixU8(pair)
  IN  IF ~Utf8Ok(pair) \/ ~r.ok THEN [ok |-> FALSE, bytes |-> bytes]
      ELSE [ok |-> TRUE, bytes |-> [bytes EXCEPT ![i + 1] = r.val]]

\* one turn of the loop (i is 0-based as in the code): the pair at 2i is
\* parsed and its value stored at i; bytes is the slice as mutated so far
HexDecodeAt(bytes, i) ==
  LET pair == Slice(bytes, 2 * i + 1, 2 * i + 2)
      r    == FromStrRadixU8(pair)
  IN  IF ~Utf8Ok(pair) \/ ~r.ok THEN [ok |-> FALSE, bytes |-> bytes]
      ELSE [ok |-> TRUE, bytes |-> [bytes EXCEPT ![i + 1] = r.val]]

RECURSIVE HexDecodeRange(_, _, _)
\* the turns a .. b - 1 in order, stopping at the first that fails; the
\* range is split in halves to keep the recursion flat
HexDecodeRange(bytes, a, b) ==
  IF a >= b THEN [ok |-> TRUE, bytes |-> bytes]
  ELSE IF b = a + 1 THEN HexDecodeAt(bytes, a)
  ELSE LET mid  == (a + b) \div 2
           left == HexDecodeRange(bytes, a, mid)
       IN  IF ~left.ok THEN left ELSE HexDecodeRange(left.bytes, mid, b)

\* the loop for i = i0 .. len/2 - 1
HexDecodeFrom(bytes, i) == HexDecodeRange(bytes, i, Len(bytes) \div 2)

\* ok, the slice after the in-place writes, and the returned prefix
hex_decode_in_place(bytes) ==
  LET r == HexDecodeFrom(bytes, 0)
  IN  [ok |-> r.ok, bytes |-> r.bytes,
       out |-> Slice(r.bytes, 1, Len(bytes) \div 2)]

(***************************************************************************)
(* proto/mod.rs: ThreadId::parse and Command::parse.                       *)
(***************************************************************************)
ThreadAll == [kind |-> "All", id |-> UZero(4)]

ThreadAny == [kind |-> "Any", id |-> UZero(4)]

ThreadOf(id) == [kind |-> "Thread", id |-> id]

\* ThreadId::parse: ok is FALSE for ParseError::Malformed
ThreadIdParse(buf, hostBigEndian) ==
  IF buf = <<Ch.minus, Ch.d1>> THEN [ok |-> TRUE, thread |-> ThreadAll]
  ELSE IF buf = <<Ch.d0>> THEN [ok |-> TRUE, thread |-> ThreadAny]
  ELSE LET r  == FromStrRadix(buf, 4)
           id == FromBe(r.val, hostBigEndian)
       IN  IF ~Utf8Ok(buf) \/ ~r.ok \/ UIsZero(id)
           THEN [ok |-> FALSE, thread |-> ThreadAny]
           ELSE [ok |-> TRUE, thread |-> ThreadOf(id)]

IsSep(b) == b = Ch.comma \/ b = Ch.colon

RECURSIVE FirstSep(_, _)
\* index of the first separator of s at or after from; 0 when there is none
FirstSep(s, from) ==
  IF from > Len(s) THEN 0
  ELSE IF IsSep(s[from]) THEN from
  ELSE FirstSep(s, from + 1)

RECURSIVE FirstByte(_, _, _)
\* index of the first byte b of s at or after from; 0 when there is none
FirstByte(s, b, from) ==
  IF from > Len(s) THEN 0
  ELSE IF s[from] = b THEN from
  ELSE FirstByte(s, b, from + 1)

ParseMalformed(buf) == [tag |-> "Malformed", cmd |-> [kind |-> "None"], buf |-> buf]

\* Unsupported reported as Malformed
ParseUnsupportedAsMalformed(buf) ==
  [tag |-> "Malformed", cmd |-> [kind |-> "None"], buf |-> buf]

ParseUnsupported(buf) == [tag |-> "Unsupported", cmd |-> [kind |-> "None"], buf |-> buf]

ParsePanic(buf) == [tag |-> "Panic", cmd |-> [kind |-> "None"], buf |-> buf]

ParseOk(cmd, buf) == [tag |-> "Ok", cmd |-> cmd, buf |-> buf]

\* the b'v' arm
ParseV(buf) ==
  LET rest == Tail(buf)
      p    == FirstByte(rest, Ch.semi, 1)
      name == IF p = 0 THEN rest ELSE Slice(rest, 1, p - 1)
  IN  IF ~Utf8Ok(name) THEN ParseMalformed(buf) ELSE ParseUnsupported(buf)

\* the b'm' / b'M' arm; buf[1..] is split in at most three parts at the
\* first two separators (',' or ':')
ParseMem(buf) ==
  LET rest  == Tail(buf)
      p1    == FirstSep(rest, 1)
      p2    == IF p1 = 0 THEN 0 ELSE FirstSep(rest, p1 + 1)
      part0 == IF p1 = 0 THEN rest ELSE Slice(rest, 1, p1 - 1)
      part1 == IF p2 = 0 THEN Slice(rest, p1 + 1, Len(rest))
               ELSE Slice(rest, p1 + 1, p2 - 1)
      part2 == Slice(rest, p2 + 1, Len(rest))
      start == FromStrRadix(part0, 8)
      len   == FromStrRadix(part1, 8)
      dec   == hex_decode_in_place(part2)
      \* buf after the in-place decoding of its third part
      mbuf  == Slice(buf, 1, p2 + 1) \o dec.bytes
  IN  IF ~Utf8Ok(part0) \/ ~start.ok THEN ParseMalformed(buf)
      ELSE IF p1 = 0 THEN ParseMalformed(buf)
      ELSE IF ~Utf8Ok(part1) \/ ~len.ok THEN ParseMalformed(buf)
      ELSE IF buf[1] = Ch.m
           THEN ParseOk([kind |-> "ReadMem", start |-> start.val, len |-> len.val], buf)
      ELSE IF p2 = 0 THEN ParseMalformed(buf)
      ELSE IF ~dec.ok THEN ParseMalformed(mbuf)
      ELSE IF USmall(Len(dec.out), 8) # len.val THEN ParseMalformed(mbuf)
      ELSE ParseOk([kind |-> "WriteMem", start |-> start.val, bytes |-> dec.out], mbuf)

\* the b'H' arm; buf[1] is read without a length check
ParseH(buf, hostBigEndian) ==
  IF Len(buf) < 2 THEN ParsePanic(buf)
  ELSE IF buf[2] # Ch.c /\ buf[2] # Ch.g THEN ParseMalformed(buf)
  ELSE LET t == ThreadIdParse(Slice(buf, 3, Len(buf)), hostBigEndian)
       IN  IF ~t.ok THEN ParseMalformed(buf)
           ELSE ParseOk([kind |-> "SetThread",
                         action |-> IF buf[2] = Ch.c THEN "ContStep" ELSE "Other",
                         thread |-> t.thread], buf)

\* the b'G' arm
ParseG(buf) ==
  LET dec == hex_decode_in_place(Tail(buf))
  IN  IF ~dec.ok THEN ParseMalformed(<<buf[1]>> \o dec.bytes)
      ELSE ParseOk([kind |-> "WriteRegisters", raw |-> dec.out],
                   <<buf[1]>> \o dec.bytes)

\* Command::parse: the result tag, the command, and buf as the call leaves it
CommandParse(buf, hostBigEndian) ==
  IF buf = <<>> THEN ParseMalformed(buf)
  ELSE IF buf[1] = Ch.v THEN ParseV(buf)
  ELSE IF buf[1] = Ch.m \/ buf[1] = Ch.M THEN ParseMem(buf)
  ELSE IF buf[1] = Ch.H THEN ParseH(buf, hostBigEndian)
  ELSE IF buf[1] = Ch.c
       THEN IF Len(buf) > 1 THEN ParseUnsupported(buf)
            ELSE ParseOk([kind |-> "Continue"], buf)
  ELSE IF buf[1] = Ch.s
       THEN IF Len(buf) > 1 THEN ParseUnsupported(buf)
            ELSE ParseOk([kind |-> "Step"], buf)
  ELSE IF buf[1] = Ch.G THEN ParseG(buf)
  ELSE IF buf[1] = Ch.quest THEN ParseOk([kind |-> "GetHaltReason"], buf)
  ELSE IF buf[1] = Ch.g THEN ParseOk([kind |-> "ReadRegisters"], buf)
  ELSE IF buf[1] = Ch.k THEN ParseOk([kind |-> "Kill"], buf)
  ELSE ParseUnsupported(buf)

(***************************************************************************)
(* targets.rs: the I386 register record and its encoding.                  *)
(***************************************************************************)
\* the field types of X86Registers in declared order
X86Layout ==
  [i \in 1..41 |->
     IF i <= 16 THEN "u32"
     ELSE IF i <= 24 THEN "st"
     ELSE IF i <= 32 THEN "u32"
     ELSE IF i <= 40 THEN "u128"
     ELSE "u32"]

FieldWidth(t) == IF t = "u32" THEN 4 ELSE IF t = "st" THEN 10 ELSE 16

\* Register::encode writing every integer most significant byte first
FieldBytesSwapped(t, v, bigEndian) ==
  IF t = "st" THEN v ELSE Reverse(v)

\* Register::encode of one field: B::write_uN for the integers, the array
\* as it is for [u8; 10]; the bytes handed to write_all_hex
FieldBytes(t, v, bigEndian) ==
  IF t = "st" THEN v ELSE IF bigEndian THEN Reverse(v) ELSE v

RECURSIVE RegBytesFrom(_, _, _)
RegBytesFrom(regs, i, bigEndian) ==
  IF i > Len(regs) THEN <<>>
  ELSE FieldBytes(X86Layout[i], regs[i], bigEndian)
         \o RegBytesFrom(regs, i + 1, bigEndian)

\* def_regs! encode: every field in declared order
RegEncode(regs, bigEndian) == WriteAllHex(RegBytesFrom(regs, 1, bigEndian))

\* the endianness I386 declares: ::byteorder::LittleEndian
I386BigEndian == FALSE

\* the encoded size of the register record in bytes
RegImageLen == Len(RegBytesFrom([i \in 1..41 |-> UZero(FieldWidth(X86Layout[i]))], 1, FALSE))

\* Register::decode of one field: B::read_uN for the integers, read_exact
\* for [u8; 10]
FieldDecode(t, chunk, bigEndian) ==
  IF t = "st" THEN chunk ELSE IF bigEndian THEN Reverse(chunk) ELSE chunk

RECURSIVE RegFieldsFrom(_, _, _, _)
\* the fields from the i-th on, read from raw at position pos
RegFieldsFrom(raw, i, pos, bigEndian) ==
  IF i > 41 THEN <<>>
  ELSE LET w == FieldWidth(X86Layout[i])
       IN  << FieldDecode(X86Layout[i], SubSeq(raw, pos, pos + w - 1), bigEndian) >>
             \o RegFieldsFrom(raw, i + 1, pos + w, bigEndian)

\* def_regs! decode: every field in declared order from the reader; ok is
\* FALSE when the reader runs out of bytes (io::ErrorKind::UnexpectedEof),
\* bytes after the last field are left unread
RegDecode(raw, bigEndian) ==
  IF Len(raw) < RegImageLen THEN [ok |-> FALSE, regs |-> <<>>]
  ELSE [ok |-> TRUE, regs |-> RegFieldsFrom(raw, 1, 1, bigEndian)]

\* the registers DummyTarget::new starts with
DummyRegs ==
  Tup([i \in 1..41 |->
         IF i = 9 THEN USmall(16, 4)
         ELSE IF i = 32 \/ i = 41 THEN <<255, 255, 255, 255>>
         ELSE UZero(FieldWidth(X86Layout[i]))], 41)

\* a snapshot in which all bytes of the image differ from their neighbours
CountRegs ==
  Tup([i \in 1..41 |->
         Tup([j \in 1..FieldWidth(X86Layout[i]) |-> (16 * i + j) % 256],
             FieldWidth(X86Layout[i]))], 41)

\* the register records the target may hold after it has run
RegSnapshots == {DummyRegs, CountRegs}

\* what the adapter's read_mem may return in Ok
MemVals == {144, 10}

\* DummyTarget::read_mem over MEMORY: 64 bytes 0x90 at 0 .. 0x3f; -1 for Err
DummyReadMem(addr) ==
  IF addr[1] < 64 /\ \A i \in 2..Len(addr) : addr[i] = 0 THEN 144 ELSE -1

(***************************************************************************)
(* The debugger: the messages it may put on the channel.                   *)
(***************************************************************************)
\* the digits GDB writes
HexChars == <<48, 49, 50, 51, 52, 53, 54, 55, 56, 57, 97, 98, 99, 100, 101, 102>>

\* one byte as GDB writes it: two lowercase hex digits
HexText(n) == <<HexChars[(n \div 16) + 1], HexChars[(n % 16) + 1]>>

RECURSIVE HexTextAll(_)
HexTextAll(d) == IF d = <<>> THEN <<>> ELSE HexText(Head(d)) \o HexTextAll(Tail(d))

Hex1(n) == <<HexChars[n + 1]>>

\* a long byte sequence as GDB writes it
HexTextFlat(d) ==
  Tup([k \in 1..(2 * Len(d)) |-> HexText(d[(k + 1) \div 2])[2 - (k % 2)]], 2 * Len(d))

\* the register image GDB sends in its G packet
GImage == RegBytesFrom(CountRegs, 1, FALSE)

\* the data bytes of generated M packets
DataBytes == {204, 15}

RECURSIVE SeqsUpTo(_, _)
\* all sequences over S of length at most n
SeqsUpTo(S, n) ==
  IF n = 0 THEN {<<>>}
  ELSE LET shorter == SeqsUpTo(S, n - 1)
       IN  shorter \cup {Append(q, x) : q \in {r \in shorter : Len(r) = n - 1}, x \in S}

AllF == [i \in 1..16 |-> Ch.f]

FixedBodies ==
  { <<>>, <<Ch.quest>>, <<Ch.g>>, <<Ch.k>>, <<Ch.c>>, <<Ch.s>>, <<Ch.q>>,
    <<Ch.v>>, <<Ch.v, Ch.q, Ch.semi, Ch.q>>, <<Ch.v, Ch.hi>>,
    <<Ch.c, Ch.d0>>, <<Ch.s, Ch.d0>>, <<Ch.quest, Ch.d0>>,
    <<Ch.G>>, <<Ch.G, Ch.d0, Ch.d1>>, <<Ch.G, Ch.z, Ch.z>>,
    <<Ch.G>> \o HexTextFlat(GImage) }

\* `m3e,4`: a read across the end of the example target's memory
PartialReadBody == <<Ch.m, 51, 101, Ch.comma, 52>>

ReadMemBodies ==
  { <<Ch.m>> \o Hex1(a) \o <<sep>> \o Hex1(l) :
      a \in 0..MaxLen, l \in 0..MaxLen, sep \in {Ch.comma, Ch.colon} }
  \cup { <<Ch.m>>, <<Ch.m, Ch.d0>>, <<Ch.m, Ch.comma, Ch.d1>>,
         <<Ch.m, Ch.z, Ch.comma, Ch.d1>>, <<Ch.m, Ch.d0, Ch.comma, Ch.z>>,
         <<Ch.m, Ch.d0, Ch.comma, Ch.hi>>,
         <<Ch.m, Ch.d0, Ch.comma, Ch.d1, Ch.comma, Ch.d5>>,
         <<Ch.m, Ch.plus, Ch.d1, Ch.comma, Ch.d1>>,
         PartialReadBody,
         <<Ch.m>> \o AllF \o <<Ch.comma, Ch.d1>>,
         <<Ch.m>> \o AllF \o <<Ch.d0, Ch.comma, Ch.d1>>,
         <<Ch.m>> \o Slice(AllF, 1, 15) \o <<Ch.E, Ch.comma, Ch.d1>> }

WriteMemBodies ==
  { <<Ch.M>> \o Hex1(a) \o <<Ch.comma>> \o Hex1(l) \o <<Ch.colon>> \o HexTextAll(d) :
      a \in {0, MaxLen}, l \in 0..MaxLen, d \in SeqsUpTo(DataBytes, MaxLen) }
  \cup { <<Ch.M, Ch.d0, Ch.comma, Ch.d1>>,
         <<Ch.M, Ch.d0, Ch.comma, Ch.d1, Ch.colon, Ch.c, Ch.c, Ch.c>>,
         <<Ch.M, Ch.d0, Ch.comma, Ch.d1, Ch.colon, Ch.c, Ch.z>>,
         <<Ch.M, Ch.d0, Ch.comma, Ch.d1, Ch.colon, Ch.plus, Ch.f>>,
         <<Ch.M, Ch.d0, Ch.comma, Ch.d1, Ch.colon, Ch.c, Ch.hi>>,
         <<Ch.M, Ch.d0, Ch.colon, Ch.d1, Ch.comma, Ch.c, Ch.c>>,
         <<Ch.M>> \o AllF \o <<Ch.comma, Ch.d1, Ch.colon, Ch.c, Ch.c>> }

ThreadFields ==
  { <<Ch.minus, Ch.d1>>, <<Ch.d0>>, <<Ch.d1>>, <<Ch.d0, Ch.d0>>, <<>>,
    <<Ch.z>> }

SetThreadBodies ==
  { <<Ch.H, a>> \o t : a \in {Ch.c, Ch.g}, t \in ThreadFields }
  \cup { <<Ch.H>>, <<Ch.H, Ch.z, Ch.d1>> }

Bodies == FixedBodies \cup ReadMemBodies \cup WriteMemBodies \cup SetThreadBodies

\* the #XX trailers the debugger may attach: the right one and one that is
\* off by one; for the shortest bodies also one in upper case, one that is
\* not hex, and two that are not text
Trailers(body) ==
  { HexText(SumBytes(body)), HexText((SumBytes(body) + 1) % 256) }
  \cup IF Len(body) <= 1
       THEN { <<Ch.z, Ch.d0>>, <<Ch.d0, Ch.hi>>, <<Ch.hi, Ch.d0>>,
              <<HexText(SumBytes(body))[1], Ch.plus>>,
              <<(SumBytes(body) \div 16) + IF SumBytes(body) >= 160 THEN 55 ELSE 48,
                HexText(SumBytes(body))[2]>> }
       ELSE {}

Frame(body, trailer) == <<Ch.dollar>> \o body \o <<Ch.hash>> \o trailer

\* the bytes the debugger may send where poll expects the start of a packet
StartBytes == { Ch.dollar, Ch.plus, Ch.minus, Ch.q, Ch.hash }

\* the packets the debugger may send
Packets ==
  UNION { { Frame(body, t) : t \in Trailers(body) } : body \in Bodies }
  \cup { Frame(PartialReadBody, <<Ch.c, 52>>) }

\* the body and the trailer of a framed message
MsgBody(msg) == Slice(msg, 2, Len(msg) - 3)

IsPacket(msg) == Len(msg) >= 4 /\ msg[1] = Ch.dollar

(***************************************************************************)
(* lib.rs: the state of GdbStub::poll.                                     *)
(*                                                                         *)
(* One step of the model is one read or write on the byte channel, one     *)
(* call of the adapter, or the code between two of them.                   *)
(***************************************************************************)
VARIABLES
  pc,                \* where poll stands
  result,            \* how poll ended, or Running
  hostBigEndian,     \* the endianness of the host the stub is built for
  wire,              \* bytes the debugger has sent and poll has not read
  msg,               \* the message the debugger sent last
  next,              \* GdbStub::next
  buf,               \* GdbStub::buf
  pbuf,              \* the local buf of poll during parse and dispatch
  computed,          \* computed_checksum of read_packet
  ckbuf,             \* the checksum array of read_packet
  cmd,               \* the parsed command
  wr,                \* the live response framer (ChecksumComm / ResponseWriter)
  todo,              \* bytes of the current write_all still to be written
  idx,               \* loop position of the ReadMem / WriteMem loops
  werr,              \* err of the WriteMem arm
  out,               \* bytes written to the channel since the last top-level read
  calls,             \* adapter calls made since the last top-level read
  iofail,            \* the channel operation that failed: none, read or write
  thread_cont_step,  \* GdbStub::thread_cont_step
  thread_other,      \* GdbStub::thread_other
  target_regs,       \* the register record the adapter holds
  installed,         \* the raw image last installed through write_registers and
                     \* still in force; empty when there is none
  hex                \* a byte sequence on its way through write_all_hex and
                     \* hex_decode_in_place, apart from poll

vars ==
  << pc, result, hostBigEndian, wire, msg, next, buf, pbuf, computed, ckbuf, cmd, wr,
     todo, idx, werr, out, calls, iofail, thread_cont_step, thread_other,
     target_regs, installed, hex >>

\* no byte sequence is under way
HexIdle == [stage |-> "idle", input |-> <<>>, text |-> <<>>, decoded |-> <<>>, ok |-> TRUE]

Running == [kind |-> "Running"]

NoCmd == [kind |-> "None"]

NoFramer == [kind |-> "none", checksum |-> 0, finished |-> FALSE]

\* the arms of handle_cmd that frame their reply with a ResponseWriter; the
\* others go through write_response and its ChecksumComm
UsesResponseWriter(c) ==
  c.kind \in {"SetThread", "Continue", "ReadMem", "WriteMem"}

\* GdbStub::new, before the first read of poll
NewStub ==
  /\ pc = "top"
  /\ result = Running
  /\ hostBigEndian \in BOOLEAN
  /\ wire = <<>>
  /\ msg = <<>>
  /\ next = 0
  /\ buf = <<>>
  /\ pbuf = <<>>
  /\ computed = 0
  /\ ckbuf = <<>>
  /\ cmd = NoCmd
  /\ wr = NoFramer
  /\ todo = <<>>
  /\ idx = 0
  /\ werr = FALSE
  /\ out = <<>>
  /\ calls = <<>>
  /\ iofail = "none"
  /\ thread_cont_step = ThreadAll
  /\ thread_other = ThreadAny
  /\ target_regs = DummyRegs
  /\ installed = <<>>

Init == NewStub /\ hex = HexIdle

\* poll returns (or unwinds) with r
Finish(r) ==
  /\ pc' = "done"
  /\ result' = r

(***************************************************************************)
(* The byte channel fails.                                                 *)
(***************************************************************************)
ReadPcs == {"top", "body", "cksum"}

WritePcs == {"ack", "wr_dollar", "wr_body", "wr_hash", "wr_ck"}

\* Comm::read returns Err: every read is followed by `?`
ReadFails ==
  /\ pc \in ReadPcs
  /\ Finish([kind |-> "CommError"])
  /\ iofail' = "read"
  /\ UNCHANGED << hostBigEndian, wire, msg, next, buf, pbuf, computed, ckbuf, cmd, wr,
                  todo, idx, werr, out, calls, thread_cont_step, thread_other,
                  target_regs, installed, hex >>

\* what a failed write turns into: the `?` returns Error::comm, and a
\* ResponseWriter that is dropped on that return before finish() ran fails
\* the assertion of its Drop
WriteFailure(w) ==
  IF w.kind = "rw" /\ ~w.finished
  THEN [kind |-> "Panic", why |-> "dropped ResponseWriter without calling finish"]
  ELSE [kind |-> "CommError"]

\* Comm::write returns Err
WriteFails ==
  /\ pc \in WritePcs
  /\ Finish(WriteFailure(wr))
  /\ iofail' = "write"
  /\ buf' = IF pc = "ack" \/ WriteFailure(wr).kind = "Panic" THEN buf ELSE pbuf
  /\ UNCHANGED << hostBigEndian, wire, msg, next, pbuf, computed, ckbuf, cmd, wr,
                  todo, idx, werr, out, calls, thread_cont_step, thread_other,
                  target_regs, installed, hex >>

(***************************************************************************)
(* poll: the top of the loop.                                              *)
(***************************************************************************)
\* the top of the loop with the b'+' arm missing: `+` falls through to the
\* catch-all arm
ReadStartRejectsAck ==
  /\ pc = "top"
  /\ wire = <<>>
  /\ \E m \in { <<b>> : b \in StartBytes } :
       /\ msg' = m
       /\ wire' = Tail(m)
       /\ next' = Head(m)
       /\ out' = <<>>
       /\ calls' = <<>>
       /\ cmd' = NoCmd
       /\ IF Head(m) = Ch.dollar
          THEN /\ pc' = "body"
               /\ buf' = <<>>
               /\ computed' = 0
               /\ result' = result
          ELSE IF Head(m) = Ch.minus
          THEN /\ Finish([kind |-> "Nack"])
               /\ computed' = 0
               /\ buf' = buf
          ELSE /\ Finish([kind |-> "Unexpected", byte |-> Head(m)])
               /\ computed' = 0
               /\ buf' = buf
  /\ ckbuf' = <<>>
  /\ idx' = 0
  /\ werr' = FALSE
  /\ UNCHANGED << hostBigEndian, pbuf, wr, todo, thread_cont_step, thread_other, iofail,
                  target_regs, installed, hex >>

\* read_packet without self.buf.clear()
ReadStartKeepsBuf ==
  /\ pc = "top"
  /\ wire = <<>>
  /\ \E m \in { <<b>> : b \in StartBytes } :
       /\ msg' = m
       /\ wire' = Tail(m)
       /\ next' = Head(m)
       /\ out' = <<>>
       /\ calls' = <<>>
       /\ cmd' = NoCmd
       /\ IF Head(m) = Ch.dollar
          THEN /\ pc' = "body"
               /\ buf' = buf
               /\ computed' = 0
               /\ result' = result
          ELSE IF Head(m) = Ch.plus
          THEN /\ pc' = "top"
               /\ computed' = 0
               /\ UNCHANGED << buf, result >>
          ELSE IF Head(m) = Ch.minus
          THEN /\ Finish([kind |-> "Nack"])
               /\ computed' = 0
               /\ buf' = buf
          ELSE /\ Finish([kind |-> "Unexpected", byte |-> Head(m)])
               /\ computed' = 0
               /\ buf' = buf
  /\ ckbuf' = <<>>
  /\ idx' = 0
  /\ werr' = FALSE
  /\ UNCHANGED << hostBigEndian, pbuf, wr, todo, thread_cont_step, thread_other, iofail,
                  target_regs, installed, hex >>

\* self.next = self.read()?; the debugger sends the first byte of its next
\* message and it is matched
ReadStart ==
  /\ pc = "top"
  /\ wire = <<>>
  /\ \E m \in { <<b>> : b \in StartBytes } :
       /\ msg' = m
       /\ wire' = Tail(m)
       /\ next' = Head(m)
       /\ out' = <<>>
       /\ calls' = <<>>
       /\ cmd' = NoCmd
       /\ IF Head(m) = Ch.dollar
          THEN \* read_packet starts: self.buf.clear()
               /\ pc' = "body"
               /\ buf' = <<>>
               /\ computed' = 0
               /\ result' = result
          ELSE IF Head(m) = Ch.plus
          THEN /\ pc' = "top"
               /\ computed' = 0
               /\ UNCHANGED << buf, result >>
          ELSE IF Head(m) = Ch.minus
          THEN /\ Finish([kind |-> "Nack"])
               /\ computed' = 0
               /\ buf' = buf
          ELSE /\ Finish([kind |-> "Unexpected", byte |-> Head(m)])
               /\ computed' = 0
               /\ buf' = buf
  \* the locals of the previous turn of the loop are gone
  /\ ckbuf' = <<>>
  /\ idx' = 0
  /\ werr' = FALSE
  /\ UNCHANGED << hostBigEndian, pbuf, wr, todo, thread_cont_step, thread_other, iofail,
                  target_regs, installed, hex >>

\* the debugger sends the rest of the packet it has started
SendPacket ==
  /\ pc = "body"
  /\ msg = <<Ch.dollar>>
  /\ \E p \in Packets :
       /\ msg' = p
       /\ wire' = Tail(p)
  /\ UNCHANGED << pc, result, hostBigEndian, next, buf, pbuf, computed, ckbuf,
                  cmd, wr, todo, idx, werr, out, calls, thread_cont_step,
                  thread_other, iofail,
                  target_regs, installed, hex >>

(***************************************************************************)
(* read_packet.                                                            *)
(***************************************************************************)
\* one turn of the loop that buffers the body
ReadBody ==
  /\ pc = "body"
  /\ wire # <<>>
  /\ wire' = Tail(wire)
  /\ IF Head(wire) = Ch.hash
     THEN /\ pc' = "cksum"
          /\ ckbuf' = <<>>
          /\ UNCHANGED << buf, computed >>
     ELSE /\ buf' = Append(buf, Head(wire))
          /\ computed' = WrappingAdd(computed, Head(wire))
          /\ UNCHANGED << pc, ckbuf >>
  /\ UNCHANGED << result, hostBigEndian, msg, next, pbuf, cmd, wr, todo, idx, werr,
                  out, calls, thread_cont_step, thread_other, iofail,
                  target_regs, installed, hex >>

\* read_packet with the two fields of Error::Checksum filled the other way
ChecksumVerdictSwapped(ck, comp) ==
  LET r == FromStrRadixU8(ck)
  IN  IF ~Utf8Ok(ck)
      THEN [kind |-> "Unexpected", byte |-> ck[Utf8ValidUpTo(ck) + 1]]
      ELSE IF ~r.ok THEN [kind |-> "Unexpected", byte |-> ck[1]]
      ELSE IF comp # r.val
           THEN [kind |-> "Checksum", received |-> comp, computed |-> r.val]
           ELSE [kind |-> "Ok"]

\* read_packet without the comparison of the two checksums
ChecksumVerdictLenient(ck, comp) ==
  LET r == FromStrRadixU8(ck)
  IN  IF ~Utf8Ok(ck)
      THEN [kind |-> "Unexpected", byte |-> ck[Utf8ValidUpTo(ck) + 1]]
      ELSE IF ~r.ok THEN [kind |-> "Unexpected", byte |-> ck[1]]
      ELSE [kind |-> "Ok"]

\* what read_packet returns once both checksum bytes are read: read_str's
\* from_utf8, u8::from_str_radix, the comparison
ChecksumVerdict(ck, comp) ==
  LET r == FromStrRadixU8(ck)
  IN  IF ~Utf8Ok(ck)
      THEN [kind |-> "Unexpected", byte |-> ck[Utf8ValidUpTo(ck) + 1]]
      ELSE IF ~r.ok THEN [kind |-> "Unexpected", byte |-> ck[1]]
      ELSE IF comp # r.val
           THEN [kind |-> "Checksum", received |-> r.val, computed |-> comp]
           ELSE [kind |-> "Ok"]

\* read_str reads the two checksum bytes; after the second the checksum is
\* parsed and compared
ReadChecksum ==
  /\ pc = "cksum"
  /\ wire # <<>>
  /\ wire' = Tail(wire)
  /\ ckbuf' = Append(ckbuf, Head(wire))
  /\ IF Len(ckbuf') < 2
     THEN UNCHANGED << pc, result >>
     ELSE LET v == ChecksumVerdict(ckbuf', computed)
          IN  IF v.kind = "Ok"
              THEN /\ pc' = "ack"
                   /\ result' = result
              ELSE Finish(v)
  /\ UNCHANGED << hostBigEndian, msg, next, buf, pbuf, computed, cmd, wr, todo, idx,
                  werr, out, calls, thread_cont_step, thread_other, iofail,
                  target_regs, installed, hex >>

(***************************************************************************)
(* poll: ACK, parse, dispatch.                                             *)
(***************************************************************************)
\* poll without the write of the ACK
AckSkipped ==
  /\ pc = "ack"
  /\ pc' = "parse"
  /\ UNCHANGED << result, hostBigEndian, wire, msg, next, buf, pbuf, computed,
                  ckbuf, cmd, wr, todo, idx, werr, out, calls, iofail,
                  thread_cont_step, thread_other,
                  target_regs, installed, hex >>

\* self.write(b'+')?
Ack ==
  /\ pc = "ack"
  /\ out' = Append(out, Ch.plus)
  /\ pc' = "parse"
  /\ UNCHANGED << result, hostBigEndian, wire, msg, next, buf, pbuf, computed, ckbuf,
                  cmd, wr, todo, idx, werr, calls, thread_cont_step,
                  thread_other, iofail,
                  target_regs, installed, hex >>

\* poll answering a Malformed packet like an Unsupported one
ParseAnswersMalformed ==
  /\ pc = "parse"
  /\ LET r == CommandParse(buf, hostBigEndian)
     IN  /\ cmd' = r.cmd
         /\ CASE r.tag = "Ok" ->
                   /\ pc' = "handle"
                   /\ pbuf' = r.buf
                   /\ buf' = <<>>
                   /\ UNCHANGED << result, todo >>
              [] r.tag \in {"Unsupported", "Malformed"} ->
                   /\ pc' = "wr_dollar"
                   /\ pbuf' = r.buf
                   /\ buf' = <<>>
                   /\ todo' = <<>>
                   /\ result' = result
              [] r.tag = "Panic" ->
                   /\ Finish([kind |-> "Panic", why |-> "index out of bounds"])
                   /\ pbuf' = r.buf
                   /\ buf' = <<>>
                   /\ todo' = todo
  /\ UNCHANGED << hostBigEndian, wire, msg, next, computed, ckbuf, wr, idx, werr,
                  out, calls, thread_cont_step, thread_other, iofail,
                  target_regs, installed, hex >>

\* mem::replace(&mut self.buf, Vec::new()) and Command::parse(&mut buf)
Parse ==
  /\ pc = "parse"
  /\ LET r == CommandParse(buf, hostBigEndian)
     IN  /\ cmd' = r.cmd
         /\ CASE r.tag = "Ok" ->
                   /\ pc' = "handle"
                   /\ pbuf' = r.buf
                   /\ buf' = <<>>
                   /\ UNCHANGED << result, todo >>
              [] r.tag = "Unsupported" ->
                   \* self.write_response(|_| Ok(()))
                   /\ pc' = "wr_dollar"
                   /\ pbuf' = r.buf
                   /\ buf' = <<>>
                   /\ todo' = <<>>
                   /\ result' = result
              [] r.tag = "Malformed" ->
                   \* self.buf = buf; res?
                   /\ Finish([kind |-> "Malformed"])
                   /\ buf' = r.buf
                   /\ UNCHANGED << pbuf, todo >>
              [] r.tag = "Panic" ->
                   /\ Finish([kind |-> "Panic", why |-> "index out of bounds"])
                   /\ pbuf' = r.buf
                   /\ buf' = <<>>
                   /\ todo' = todo
  /\ UNCHANGED << hostBigEndian, wire, msg, next, computed, ckbuf, wr, idx, werr,
                  out, calls, thread_cont_step, thread_other, iofail,
                  target_regs, installed, hex >>

(***************************************************************************)
(* handle_cmd: the arms up to their first channel write.                   *)
(*                                                                         *)
(* Command::Step and Command::WriteRegisters have no arm in the handle_cmd  *)
(* of lib.rs and its StubCalls has no step or write_registers, while the   *)
(* parser returns both commands and the example target implements both     *)
(* methods: their two arms follow the dispatch rules of the specification. *)
(***************************************************************************)
Call(op) == [op |-> op]

\* the GetHaltReason arm reporting the trap signal
HandleGetHaltReasonTrap ==
  /\ pc = "handle"
  /\ cmd.kind = "GetHaltReason"
  /\ todo' = <<Ch.S, Ch.d0, Ch.d5>>
  /\ pc' = "wr_dollar"
  /\ UNCHANGED << result, hostBigEndian, wire, msg, next, buf, pbuf, computed, ckbuf,
                  cmd, wr, idx, werr, out, calls, thread_cont_step,
                  thread_other, iofail, target_regs, installed, hex >>

\* Command::GetHaltReason => self.write_response(|c| c.write_all(b"S00"))
HandleGetHaltReason ==
  /\ pc = "handle"
  /\ cmd.kind = "GetHaltReason"
  /\ todo' = <<Ch.S, Ch.d0, Ch.d0>>
  /\ pc' = "wr_dollar"
  /\ UNCHANGED << result, hostBigEndian, wire, msg, next, buf, pbuf, computed, ckbuf,
                  cmd, wr, idx, werr, out, calls, thread_cont_step,
                  thread_other, iofail,
                  target_regs, installed, hex >>

\* Command::ReadRegisters: the snapshot is taken, then encoded with
\* LittleEndian inside write_response
HandleReadRegisters ==
  /\ pc = "handle"
  /\ cmd.kind = "ReadRegisters"
  /\ calls' = Append(calls, [op |-> "read_registers", ret |-> target_regs])
  /\ todo' = RegEncode(target_regs, FALSE)
  /\ pc' = "wr_dollar"
  /\ UNCHANGED << result, hostBigEndian, wire, msg, next, buf, pbuf, computed, ckbuf,
                  cmd, wr, idx, werr, out, thread_cont_step, thread_other, iofail,
                  target_regs, installed, hex >>

\* the Kill arm without the call of the adapter
HandleKillNoCall ==
  /\ pc = "handle"
  /\ cmd.kind = "Kill"
  /\ Finish([kind |-> "Ok"])
  /\ buf' = pbuf
  /\ UNCHANGED << hostBigEndian, wire, msg, next, pbuf, computed, ckbuf, cmd,
                  wr, todo, idx, werr, out, calls, iofail, thread_cont_step,
                  thread_other,
                  target_regs, installed, hex >>

\* Command::Kill: Err(Error::Killed), which poll turns into Ok(())
HandleKill ==
  /\ pc = "handle"
  /\ cmd.kind = "Kill"
  /\ calls' = Append(calls, Call("kill"))
  /\ Finish([kind |-> "Ok"])
  /\ buf' = pbuf
  /\ UNCHANGED << hostBigEndian, wire, msg, next, pbuf, computed, ckbuf, cmd, wr,
                  todo, idx, werr, out, thread_cont_step, thread_other, iofail,
                  target_regs, installed, hex >>

\* the SetThread arm storing the thread in the other selector
HandleSetThreadSwapped ==
  /\ pc = "handle"
  /\ cmd.kind = "SetThread"
  /\ IF cmd.action = "ContStep"
     THEN /\ thread_other' = cmd.thread
          /\ thread_cont_step' = thread_cont_step
     ELSE /\ thread_cont_step' = cmd.thread
          /\ thread_other' = thread_other
  /\ todo' = <<Ch.O, Ch.K>>
  /\ pc' = "wr_dollar"
  /\ UNCHANGED << result, hostBigEndian, wire, msg, next, buf, pbuf, computed, ckbuf,
                  cmd, wr, idx, werr, out, calls, iofail,
                  target_regs, installed, hex >>

\* Command::SetThread
HandleSetThread ==
  /\ pc = "handle"
  /\ cmd.kind = "SetThread"
  /\ IF cmd.action = "ContStep"
     THEN /\ thread_cont_step' = cmd.thread
          /\ thread_other' = thread_other
     ELSE /\ thread_other' = cmd.thread
          /\ thread_cont_step' = thread_cont_step
  /\ todo' = <<Ch.O, Ch.K>>
  /\ pc' = "wr_dollar"
  /\ UNCHANGED << result, hostBigEndian, wire, msg, next, buf, pbuf, computed, ckbuf,
                  cmd, wr, idx, werr, out, calls, iofail,
                  target_regs, installed, hex >>

\* the Continue arm replying before it runs the target
HandleContinueNoCall ==
  /\ pc = "handle"
  /\ cmd.kind = "Continue"
  /\ todo' = <<Ch.S, Ch.d0, Ch.d5>>
  /\ pc' = "wr_dollar"
  /\ UNCHANGED << result, hostBigEndian, wire, msg, next, buf, pbuf, computed, ckbuf,
                  cmd, wr, idx, werr, out, calls, thread_cont_step, thread_other,
                  iofail, target_regs, installed, hex >>

\* Command::Continue; the target runs and stops with some register record
HandleContinue ==
  /\ pc = "handle"
  /\ cmd.kind = "Continue"
  /\ calls' = Append(calls, Call("cont"))
  /\ target_regs' \in RegSnapshots
  /\ installed' = <<>>
  /\ todo' = <<Ch.S, Ch.d0, Ch.d5>>
  /\ pc' = "wr_dollar"
  /\ UNCHANGED << result, hostBigEndian, wire, msg, next, buf, pbuf, computed, ckbuf,
                  cmd, wr, idx, werr, out, thread_cont_step, thread_other, iofail, hex >>

\* Command::Step: call the adapter's step(), on return reply S05
HandleStep ==
  /\ pc = "handle"
  /\ cmd.kind = "Step"
  /\ calls' = Append(calls, Call("step"))
  /\ target_regs' \in RegSnapshots
  /\ installed' = <<>>
  /\ todo' = <<Ch.S, Ch.d0, Ch.d5>>
  /\ pc' = "wr_dollar"
  /\ UNCHANGED << result, hostBigEndian, wire, msg, next, buf, pbuf, computed, ckbuf,
                  cmd, wr, idx, werr, out, thread_cont_step, thread_other, iofail, hex >>

\* Command::WriteRegisters: decode the raw image with the target's
\* endianness, install the record through the adapter, reply OK; an image
\* the record cannot be decoded from fails the length check of the packet
HandleWriteRegisters ==
  /\ pc = "handle"
  /\ cmd.kind = "WriteRegisters"
  /\ LET d == RegDecode(cmd.raw, I386BigEndian)
     IN  IF d.ok
         THEN /\ calls' = Append(calls, [op |-> "write_registers", arg |-> d.regs])
              /\ target_regs' = d.regs
              /\ installed' = SubSeq(cmd.raw, 1, RegImageLen)
              /\ todo' = <<Ch.O, Ch.K>>
              /\ pc' = "wr_dollar"
              /\ UNCHANGED << result, buf >>
         ELSE /\ Finish([kind |-> "Malformed"])
              /\ buf' = pbuf
              /\ UNCHANGED << calls, target_regs, installed, todo >>
  /\ UNCHANGED << hostBigEndian, wire, msg, next, pbuf, computed, ckbuf, cmd, wr,
                  idx, werr, out, thread_cont_step, thread_other, iofail, hex >>

\* Command::ReadMem: ResponseWriter::new comes first
HandleReadMem ==
  /\ pc = "handle"
  /\ cmd.kind = "ReadMem"
  /\ todo' = <<>>
  /\ idx' = 0
  /\ pc' = "wr_dollar"
  /\ UNCHANGED << result, hostBigEndian, wire, msg, next, buf, pbuf, computed, ckbuf,
                  cmd, wr, werr, out, calls, thread_cont_step, thread_other, iofail,
                  target_regs, installed, hex >>

\* Command::WriteMem: the write loop comes first
HandleWriteMem ==
  /\ pc = "handle"
  /\ cmd.kind = "WriteMem"
  /\ idx' = 0
  /\ werr' = FALSE
  /\ pc' = "wm_loop"
  /\ UNCHANGED << result, hostBigEndian, wire, msg, next, buf, pbuf, computed, ckbuf,
                  cmd, wr, todo, out, calls, thread_cont_step, thread_other, iofail,
                  target_regs, installed, hex >>

(***************************************************************************)
(* handle_cmd: the memory loops.                                           *)
(***************************************************************************)
\* the number of addresses the arm asks for
RangeLen(c) == IF c.kind = "ReadMem" THEN c.len ELSE USmall(Len(c.bytes), 8)

\* start + len, wrapping
RangeEnd(c) == UAdd(c.start, RangeLen(c))

\* the address of loop turn i (0-based)
RangeAddr(c, i) == UAdd(c.start, USmall(i, 8))

\* start..start+len still has an element at turn i
InRange(c, i) == ULess(RangeAddr(c, i), RangeEnd(c))

\* start + len overflows u64
RangeOverflows(c) == UAddOverflows(c.start, RangeLen(c))

\* `start+len` overflows in a build with overflow checks: the addition
\* panics.  (In a build without them it wraps and the loops below run on
\* the wrapped range; which of the two happens is left open at this point.)
RangeOverflow ==
  /\ pc \in {"rm_loop", "wm_loop"}
  /\ idx = 0
  /\ RangeOverflows(cmd)
  /\ Finish([kind |-> "Panic", why |-> "attempt to add with overflow"])
  /\ UNCHANGED << hostBigEndian, wire, msg, next, buf, pbuf, computed, ckbuf, cmd, wr,
                  todo, idx, werr, out, calls, thread_cont_step, thread_other, iofail,
                  target_regs, installed, hex >>

\* resp.finish() begins: self.finished = true
FinishFramer(w) == [w EXCEPT !.finished = TRUE]

\* the ReadMem loop with the adapter's Err passed on by `?`
ReadMemStepPropagates ==
  /\ pc = "rm_loop"
  /\ InRange(cmd, idx)
  /\ \E ret \in MemVals \cup {-1} :
       /\ calls' = Append(calls, [op |-> "read_mem", addr |-> RangeAddr(cmd, idx), ret |-> ret])
       /\ IF ret >= 0
          THEN /\ todo' = WriteHex(ret)
               /\ pc' = "wr_body"
               /\ idx' = idx + 1
               /\ UNCHANGED << wr, result >>
          ELSE /\ Finish([kind |-> "Malformed"])
               /\ UNCHANGED << todo, idx, wr >>
  /\ UNCHANGED << hostBigEndian, wire, msg, next, buf, pbuf, computed, ckbuf,
                  cmd, werr, out, iofail, thread_cont_step, thread_other,
                  target_regs, installed, hex >>

\* the ReadMem loop going on to the next address after an Err
ReadMemStepContinues ==
  /\ pc = "rm_loop"
  /\ InRange(cmd, idx)
  /\ \E ret \in MemVals \cup {-1} :
       /\ calls' = Append(calls, [op |-> "read_mem", addr |-> RangeAddr(cmd, idx), ret |-> ret])
       /\ IF ret >= 0
          THEN /\ todo' = WriteHex(ret)
               /\ pc' = "wr_body"
               /\ idx' = idx + 1
               /\ wr' = wr
          ELSE /\ idx' = idx + 1
               /\ UNCHANGED << wr, pc, todo >>
  /\ UNCHANGED << result, hostBigEndian, wire, msg, next, buf, pbuf, computed, ckbuf,
                  cmd, werr, out, thread_cont_step, thread_other, iofail,
                  target_regs, installed, hex >>

\* one turn of the ReadMem loop: self.target.read_mem(addr); ret is the byte
\* of Ok, or -1 for Err
ReadMemStep ==
  /\ pc = "rm_loop"
  /\ InRange(cmd, idx)
  /\ \E ret \in MemVals \cup {-1} :
       /\ calls' = Append(calls, [op |-> "read_mem", addr |-> RangeAddr(cmd, idx), ret |-> ret])
       /\ IF ret >= 0
          THEN \* resp.write_hex(byte)
               /\ todo' = WriteHex(ret)
               /\ pc' = "wr_body"
               /\ idx' = idx + 1
               /\ wr' = wr
          ELSE \* break; resp.finish()
               /\ wr' = FinishFramer(wr)
               /\ pc' = "wr_hash"
               /\ UNCHANGED << todo, idx >>
  /\ UNCHANGED << result, hostBigEndian, wire, msg, next, buf, pbuf, computed, ckbuf,
                  cmd, werr, out, thread_cont_step, thread_other, iofail,
                  target_regs, installed, hex >>

\* the range is exhausted: resp.finish()
ReadMemDone ==
  /\ pc = "rm_loop"
  /\ ~InRange(cmd, idx)
  /\ wr' = FinishFramer(wr)
  /\ pc' = "wr_hash"
  /\ UNCHANGED << result, hostBigEndian, wire, msg, next, buf, pbuf, computed, ckbuf,
                  cmd, todo, idx, werr, out, calls, thread_cont_step,
                  thread_other, iofail,
                  target_regs, installed, hex >>

\* the WriteMem reply that ignores err
WriteMemReplyAlwaysOk(err) == <<Ch.O, Ch.K>>

\* the reply the WriteMem arm sends
WriteMemReply(err) == IF err THEN <<Ch.E, Ch.d0, Ch.d0>> ELSE <<Ch.O, Ch.K>>

\* the WriteMem loop going on to the next byte after an Err
WriteMemStepContinues ==
  /\ pc = "wm_loop"
  /\ InRange(cmd, idx)
  /\ \E ret \in {0, -1} :
       /\ calls' = Append(calls, [op |-> "write_mem", addr |-> RangeAddr(cmd, idx),
                                  byte |-> cmd.bytes[idx + 1], ret |-> ret])
       /\ werr' = (werr \/ ret # 0)
       /\ idx' = idx + 1
       /\ UNCHANGED << pc, todo >>
  /\ UNCHANGED << result, hostBigEndian, wire, msg, next, buf, pbuf, computed, ckbuf,
                  cmd, wr, out, thread_cont_step, thread_other, iofail,
                  target_regs, installed, hex >>

\* one turn of the WriteMem loop: self.target.write_mem(addr, *byte); ret is
\* 0 for Ok, -1 for Err
WriteMemStep ==
  /\ pc = "wm_loop"
  /\ InRange(cmd, idx)
  /\ \E ret \in {0, -1} :
       /\ calls' = Append(calls, [op |-> "write_mem", addr |-> RangeAddr(cmd, idx),
                                  byte |-> cmd.bytes[idx + 1], ret |-> ret])
       /\ IF ret = 0
          THEN /\ idx' = idx + 1
               /\ UNCHANGED << werr, pc, todo >>
          ELSE \* err = true; break
               /\ werr' = TRUE
               /\ todo' = WriteMemReply(TRUE)
               /\ pc' = "wr_dollar"
               /\ idx' = idx
  /\ UNCHANGED << result, hostBigEndian, wire, msg, next, buf, pbuf, computed, ckbuf,
                  cmd, wr, out, thread_cont_step, thread_other, iofail,
                  target_regs, installed, hex >>

\* the zip is exhausted
WriteMemDone ==
  /\ pc = "wm_loop"
  /\ ~InRange(cmd, idx)
  /\ todo' = WriteMemReply(werr)
  /\ pc' = "wr_dollar"
  /\ UNCHANGED << result, hostBigEndian, wire, msg, next, buf, pbuf, computed, ckbuf,
                  cmd, wr, idx, werr, out, calls, thread_cont_step,
                  thread_other, iofail,
                  target_regs, installed, hex >>

(***************************************************************************)
(* The response framers: write_response with its ChecksumComm, and         *)
(* ResponseWriter.                                                         *)
(***************************************************************************)
\* self.write(b'$') of write_response, comm.write(b'$') of ResponseWriter::new
WriteDollar ==
  /\ pc = "wr_dollar"
  /\ out' = Append(out, Ch.dollar)
  /\ wr' = [kind |-> IF UsesResponseWriter(cmd) THEN "rw" ELSE "closure",
            checksum |-> 0, finished |-> FALSE]
  /\ pc' = IF cmd.kind = "ReadMem" THEN "rm_loop"
           ELSE IF todo = <<>> THEN "wr_hash"
           ELSE "wr_body"
  /\ UNCHANGED << result, hostBigEndian, wire, msg, next, buf, pbuf, computed, ckbuf,
                  cmd, todo, idx, werr, calls, thread_cont_step, thread_other, iofail,
                  target_regs, installed, hex >>

\* the checksum a framer holds after one more body byte
FramerAdd(w, byte) == [w EXCEPT !.checksum = WrappingAdd(w.checksum, byte)]

\* ChecksumComm::write / ResponseWriter::write of the next body byte; after
\* the last byte of a write_all the arm goes on (to finish(), or to the next
\* turn of the ReadMem loop)
WriteBody ==
  /\ pc = "wr_body"
  /\ todo # <<>>
  /\ out' = Append(out, Head(todo))
  /\ todo' = Tail(todo)
  /\ IF todo' # <<>>
     THEN /\ wr' = FramerAdd(wr, Head(todo))
          /\ pc' = pc
     ELSE IF cmd.kind = "ReadMem"
     THEN /\ wr' = FramerAdd(wr, Head(todo))
          /\ pc' = "rm_loop"
     ELSE /\ wr' = FinishFramer(FramerAdd(wr, Head(todo)))
          /\ pc' = "wr_hash"
  /\ UNCHANGED << result, hostBigEndian, wire, msg, next, buf, pbuf, computed, ckbuf,
                  cmd, idx, werr, calls, thread_cont_step, thread_other, iofail,
                  target_regs, installed, hex >>

\* a finish that stops after the `#`
WriteHashNoChecksum ==
  /\ pc = "wr_hash"
  /\ out' = Append(out, Ch.hash)
  /\ pc' = "top"
  /\ buf' = pbuf
  /\ pbuf' = <<>>
  /\ wr' = NoFramer
  /\ UNCHANGED << result, hostBigEndian, wire, msg, next, computed, ckbuf, cmd,
                  todo, idx, werr, calls, iofail, thread_cont_step,
                  thread_other,
                  target_regs, installed, hex >>

\* write(b'#'), then write_hex(checksum) is due
WriteHash ==
  /\ pc = "wr_hash"
  /\ out' = Append(out, Ch.hash)
  /\ todo' = WriteHex(wr.checksum)
  /\ pc' = "wr_ck"
  /\ UNCHANGED << result, hostBigEndian, wire, msg, next, buf, pbuf, computed, ckbuf,
                  cmd, wr, idx, werr, calls, thread_cont_step, thread_other, iofail,
                  target_regs, installed, hex >>

\* the two writes of write_hex(checksum); after the second the arm returns
\* Ok(()), poll restores self.buf and loops
WriteCk ==
  /\ pc = "wr_ck"
  /\ todo # <<>>
  /\ out' = Append(out, Head(todo))
  /\ todo' = Tail(todo)
  /\ IF todo' # <<>>
     THEN UNCHANGED << pc, buf, pbuf, wr >>
     ELSE /\ pc' = "top"
          /\ buf' = pbuf
          /\ pbuf' = <<>>
          /\ wr' = NoFramer
  /\ UNCHANGED << result, hostBigEndian, wire, msg, next, computed, ckbuf, cmd, idx,
                  werr, calls, thread_cont_step, thread_other, iofail,
                  target_regs, installed, hex >>

(***************************************************************************)
(* The specification.                                                      *)
(***************************************************************************)
Next ==
  \/ ReadFails
  \/ WriteFails
  \/ ReadStart
  \/ SendPacket
  \/ ReadBody
  \/ ReadChecksum
  \/ Ack
  \/ Parse
  \/ HandleGetHaltReason
  \/ HandleReadRegisters
  \/ HandleKill
  \/ HandleSetThread
  \/ HandleContinue
  \/ HandleStep
  \/ HandleWriteRegisters
  \/ HandleReadMem
  \/ HandleWriteMem
  \/ RangeOverflow
  \/ ReadMemStep
  \/ ReadMemDone
  \/ WriteMemStep
  \/ WriteMemDone
  \/ WriteDollar
  \/ WriteBody
  \/ WriteHash
  \/ WriteCk

Spec == Init /\ [][Next]_vars

(***************************************************************************)
(* The hex helpers on their own: a byte sequence is written with           *)
(* write_all_hex and the text is handed to hex_decode_in_place.            *)
(***************************************************************************)
\* longest sampled byte sequence
MaxHexLen == 3

\* the byte values of the sampled sequences
HexSample == {0, 10, 171, 255}

\* every single byte, and the sequences over the sample up to the bound
HexInputs == { <<b>> : b \in 0..255 } \cup SeqsUpTo(HexSample, MaxHexLen)

pollvars ==
  << pc, result, hostBigEndian, wire, msg, next, buf, pbuf, computed, ckbuf, cmd, wr,
     todo, idx, werr, out, calls, iofail, thread_cont_step, thread_other,
     target_regs, installed >>

HexInit ==
  /\ NewStub
  /\ hex \in { [stage |-> "input", input |-> b, text |-> <<>>, decoded |-> <<>>, ok |-> TRUE] :
               b \in HexInputs }

\* comm.write_all_hex(input)
HexEncode ==
  /\ hex.stage = "input"
  /\ hex' = [hex EXCEPT !.stage = "text", !.text = WriteAllHex(hex.input)]
  /\ UNCHANGED pollvars

\* hex_decode_in_place(&mut text)
HexDecode ==
  /\ hex.stage = "text"
  /\ LET r == hex_decode_in_place(hex.text)
     IN  hex' = [hex EXCEPT !.stage = "decoded", !.ok = r.ok, !.decoded = r.out]
  /\ UNCHANGED pollvars

HexNext == HexEncode \/ HexDecode

HexSpec == HexInit /\ [][HexNext]_vars

(***************************************************************************)
(* Properties.                                                             *)
(***************************************************************************)
\* r is `$` body `#` c1 c2 with c1 c2 the lowercase hex digits of the sum of
\* the body bytes modulo 256
WellFramed(r) ==
  /\ Len(r) >= 4
  /\ r[1] = Ch.dollar
  /\ r[Len(r) - 2] = Ch.hash
  /\ Slice(r, Len(r) - 1, Len(r)) = HexText(SumBytes(Slice(r, 2, Len(r) - 3)))

\* the body of the response in out, which is `+` followed by a framed reply
ResponseBody == Slice(out, 3, Len(out) - 3)

\* the trailer of the debugger's packet is two hex digits
TrailerIsHex(m) == HexVal(m[Len(m) - 1]) >= 0 /\ HexVal(m[Len(m)]) >= 0

TrailerVal(m) == 16 * HexVal(m[Len(m) - 1]) + HexVal(m[Len(m)])

\* the debugger's packet is completely read and its declared checksum is
\* the sum of its body
WellFormedRead ==
  /\ IsPacket(msg)
  /\ wire = <<>>
  /\ pc \notin {"body", "cksum"}
  /\ TrailerIsHex(msg)
  /\ TrailerVal(msg) = SumBytes(MsgBody(msg))

\* the small number held in a u64
SmallVal(v) == v[1] + 256 * v[2]

HasErr(cs) == \E i \in 1..Len(cs) : cs[i].op \in {"read_mem", "write_mem"} /\ cs[i].ret < 0

\* C1: every complete response on the channel is `$` body `#` c1 c2 with the
\* lowercase hex checksum of the body, whatever the command and whatever the
\* adapter returned.
C1_ResponseShape ==
  (pc = "top" /\ out # <<>>) => (out[1] = Ch.plus /\ WellFramed(Tail(out)))

C1_Witness ==
  /\ pc = "top"
  /\ cmd.kind = "ReadMem"
  /\ out = <<Ch.plus, Ch.dollar, 48, 97, 57, 48, Ch.hash, 102, 97>>

\* C2: for a packet whose declared checksum matches, the ACK `+` is the first
\* byte written: it is on the channel before the body is parsed, before any
\* adapter call and before any byte of the response.
C2_AckFirst ==
  /\ (out # <<>>) => out[1] = Ch.plus
  /\ (cmd # NoCmd \/ calls # <<>> \/ pc \in {"handle", "rm_loop", "wm_loop",
        "wr_dollar", "wr_body", "wr_hash", "wr_ck"}) => out # <<>>
  /\ (WellFormedRead /\ iofail = "none") => (pc = "ack" \/ out # <<>>)

C2_Witness ==
  /\ pc = "handle"
  /\ cmd.kind = "Continue"
  /\ out = <<Ch.plus>>
  /\ calls = <<>>

\* C3: request and response are strictly serial: while a packet is being
\* received nothing is written and the adapter is not called; when poll is
\* back at the top of the loop the packet is completely read and exactly one
\* complete response was written for it.
C3_Serial ==
  /\ (pc \in {"body", "cksum"}) => (out = <<>> /\ calls = <<>>)
  /\ (pc = "top") =>
       /\ wire = <<>>
       /\ (IsPacket(msg) =>
             /\ out # <<>>
             /\ WellFramed(Tail(out))
             /\ \A i \in 3..Len(out) : out[i] # Ch.dollar /\ out[i] # Ch.plus)
       /\ (~IsPacket(msg) => out = <<>>)

C3_Witness ==
  /\ pc = "top"
  /\ IsPacket(msg)
  /\ cmd.kind = "WriteMem"
  /\ Len(calls) = 2

\* C4: a packet whose #XX trailer differs from the 8-bit sum of its body ends
\* poll with Checksum { received = the trailer, computed = the sum }; no `+`
\* is written and the adapter is not called.
C4_ChecksumMismatch ==
  ( /\ IsPacket(msg)
    /\ wire = <<>>
    /\ pc \notin {"body", "cksum"}
    /\ TrailerIsHex(msg)
    /\ TrailerVal(msg) # SumBytes(MsgBody(msg)) )
  => ( /\ pc = "done"
       /\ result = [kind |-> "Checksum", received |-> TrailerVal(msg),
                    computed |-> SumBytes(MsgBody(msg))]
       /\ out = <<>>
       /\ calls = <<>> )

C4_Witness ==
  /\ result.kind = "Checksum"
  /\ Len(MsgBody(msg)) >= 5
  /\ MsgBody(msg)[1] = Ch.M

\* the debugger's packet is a well-framed `k`
KillPacket == IsPacket(msg) /\ MsgBody(msg) = <<Ch.k>> /\ WellFormedRead

\* C5: a well-framed `k` packet makes poll call kill() exactly once and
\* return success, with nothing written after the ACK and nothing read after
\* the packet.
C5_Kill ==
  (KillPacket /\ iofail = "none" /\ pc \notin {"ack", "parse", "handle"})
  => ( /\ pc = "done"
       /\ result = [kind |-> "Ok"]
       /\ calls = <<Call("kill")>>
       /\ out = <<Ch.plus>>
       /\ wire = <<>> )

C5_Witness == KillPacket /\ pc = "done" /\ result.kind = "Ok"

\* C6: poll ends with success exactly when a Kill was processed, and every
\* other end of poll is one of the returned errors CommError, Checksum,
\* Malformed, Nack, Unexpected.
C6_Termination ==
  (pc = "done") =>
    /\ result.kind \in {"Ok", "CommError", "Checksum", "Malformed", "Nack",
                        "Unexpected"}
    /\ (result.kind = "Ok") <=> (cmd.kind = "Kill")

\* C7: whenever a read or a write on the channel fails, poll ends by returning
\* CommError.
C7_TransportError ==
  (iofail # "none") => (pc = "done" /\ result = [kind |-> "CommError"])

\* the response body is the lowercase hex text of the first k bytes read
ReadBytesEncoded(k) ==
  /\ Len(ResponseBody) = 2 * k
  /\ \A i \in 1..k :
       Slice(ResponseBody, 2 * i - 1, 2 * i) = HexText(calls[i].ret)

\* C8: a served ReadMem { start, len } called read_mem for start, start+1, ...
\* in this order; when no call failed all len addresses were read and the
\* body is their 2*len hex characters; when the call for start+k failed it
\* was the last call, k < len, and the body is the 2*k hex characters of the
\* bytes read before it.
C8_ReadMem ==
  (pc = "top" /\ cmd.kind = "ReadMem") =>
    /\ \A i \in 1..Len(calls) :
         /\ calls[i].op = "read_mem"
         /\ calls[i].addr = UAdd(cmd.start, USmall(i - 1, 8))
    /\ ~HasErr(calls) =>
         /\ Len(calls) = SmallVal(cmd.len)
         /\ ReadBytesEncoded(SmallVal(cmd.len))
    /\ HasErr(calls) =>
         /\ calls[Len(calls)].ret < 0
         /\ \A i \in 1..(Len(calls) - 1) : calls[i].ret >= 0
         /\ Len(calls) - 1 < SmallVal(cmd.len)
         /\ ReadBytesEncoded(Len(calls) - 1)

C10_AdapterErrKeepsAlive ==
  (HasErr(calls) /\ iofail = "none") =>
    /\ result = Running
    /\ pc \in {"wr_dollar", "wr_body", "wr_hash", "wr_ck", "top"}
    /\ (pc = "top" => WellFramed(Tail(out)))

C10_Witness ==
  /\ pc = "top"
  /\ cmd.kind = "ReadMem"
  /\ HasErr(calls)
  /\ Len(calls) = 2

\* the reply `+` `$OK#9a`
OkReply == <<Ch.plus, Ch.dollar, Ch.O, Ch.K, Ch.hash, 57, 97>>

\* C11: the step that dispatches SetThread { ContStep, X } stores X in
\* thread_cont_step and leaves thread_other alone, the step that dispatches
\* SetThread { Other, X } stores X in thread_other and leaves thread_cont_step
\* alone; no other step of that dispatch touches a selector, none calls the
\* adapter, and the dispatch ends with the reply `$OK#9a` on the channel.
C11_SetThreadFrame ==
  [][ /\ (pc = "handle" /\ cmd.kind = "SetThread") =>
           /\ cmd.action = "ContStep" =>
                thread_cont_step' = cmd.thread /\ thread_other' = thread_other
           /\ cmd.action = "Other" =>
                thread_other' = cmd.thread /\ thread_cont_step' = thread_cont_step
           /\ calls = <<>> /\ calls' = <<>>
      /\ (pc # "handle" /\ cmd.kind = "SetThread" /\ cmd' = cmd) =>
           /\ UNCHANGED << thread_cont_step, thread_other >>
           /\ calls' = <<>>
      /\ (cmd.kind = "SetThread" /\ pc = "wr_ck" /\ pc' = "top") =>
           out' = OkReply
    ]_vars

C11_Witness ==
  /\ pc = "top"
  /\ cmd = [kind |-> "SetThread", action |-> "Other", thread |-> ThreadAll]
  /\ thread_other = ThreadAll
  /\ thread_cont_step = ThreadAll
  /\ calls = <<>>
  /\ out = OkReply

\* the bodies the parser table classifies as Unsupported
TableUnsupported(body) ==
  /\ body # <<>>
  /\ \/ body[1] = Ch.v
     \/ body[1] \in {Ch.c, Ch.s} /\ Len(body) > 1
     \/ body[1] \notin {Ch.quest, Ch.g, Ch.G, Ch.k, Ch.m, Ch.M, Ch.H, Ch.c, Ch.s, Ch.v}

\* the name of a v packet: the bytes after `v` up to the first `;`
VName(body) ==
  LET p == FirstByte(body, Ch.semi, 2)
  IN  IF p = 0 THEN Slice(body, 2, Len(body)) ELSE Slice(body, 2, p - 1)

\* the reply `+` `$#00`
EmptyReply == <<Ch.plus, Ch.dollar, Ch.hash, Ch.d0, Ch.d0>>

\* what poll does with an unsupported packet while the channel works: no
\* adapter call, nothing written but `+$#00`, and poll keeps running
AnsweredEmpty ==
  /\ calls = <<>>
  /\ result = Running
  /\ Len(out) <= Len(EmptyReply)
  /\ out = SubSeq(EmptyReply, 1, Len(out))
  /\ pc \in {"ack", "parse", "wr_dollar", "wr_body", "wr_hash", "wr_ck", "top"}
  /\ (pc = "top" => out = EmptyReply)

ListedMalformed ==
  { <<>>,
    <<Ch.m, Ch.d0>>,
    <<Ch.m, Ch.d0, Ch.comma, Ch.z>>,
    <<Ch.M, Ch.d0, Ch.comma, 50, Ch.colon, Ch.c, Ch.c>>,
    <<Ch.H, Ch.z, Ch.d1>>,
    <<Ch.H, Ch.c, Ch.d0, Ch.d0>> }

\* C13: when the body of a well-framed packet is one the parser returns
\* Malformed for (among them the listed kinds), poll writes the ACK and
\* nothing else, calls no adapter operation, and ends with the error
\* Malformed.
C13_Malformed ==
  ( /\ WellFormedRead
    /\ \/ CommandParse(MsgBody(msg), hostBigEndian).tag = "Malformed"
       \/ MsgBody(msg) \in ListedMalformed
    /\ iofail = "none" ) =>
    /\ calls = <<>>
    /\ pc \in {"ack", "parse", "done"}
    /\ (pc = "ack" => out = <<>>)
    /\ (pc \in {"parse", "done"} => out = <<Ch.plus>>)
    /\ (pc = "done" => result = [kind |-> "Malformed"])
    /\ (pc # "done" => result = Running)

C13_Witness ==
  /\ WellFormedRead
  /\ MsgBody(msg) = <<Ch.H, Ch.c, Ch.d0, Ch.d0>>
  /\ pc = "done"
  /\ result = [kind |-> "Malformed"]
  /\ out = <<Ch.plus>>
  /\ calls = <<>>

\* C14: a step from the top of the loop that reads a byte b other than `$`:
\* for `+` nothing is written, no adapter operation is called, the thread
\* selectors and the buffer keep their values and poll is at the top of the
\* loop again; for `-` poll ends with Nack; for any other b poll ends with
\* Unexpected carrying b.
C14_TopLevelBytes ==
  [][ (pc = "top" /\ iofail' = "none" /\ Len(msg') = 1 /\ msg'[1] # Ch.dollar) =>
        LET b == msg'[1]
        IN  /\ b = Ch.plus =>
                 /\ pc' = "top"
                 /\ result' = Running
                 /\ out' = <<>>
                 /\ calls' = <<>>
                 /\ UNCHANGED << thread_cont_step, thread_other, buf >>
            /\ b = Ch.minus =>
                 /\ pc' = "done"
                 /\ result' = [kind |-> "Nack"]
                 /\ out' = <<>>
                 /\ calls' = <<>>
            /\ b \notin {Ch.plus, Ch.minus} =>
                 /\ pc' = "done"
                 /\ result' = [kind |-> "Unexpected", byte |-> b]
                 /\ out' = <<>>
                 /\ calls' = <<>>
    ]_vars

\* a stray `+` after a served Hg-1: the selector and the buffer are kept
C14_Witness ==
  /\ pc = "top"
  /\ msg = <<Ch.plus>>
  /\ result = Running
  /\ out = <<>>
  /\ thread_other = ThreadAll
  /\ buf = <<Ch.H, Ch.g, Ch.minus, Ch.d1>>

\* the Command variant the grammar table assigns to a first byte; "None" for
\* the bytes that have no variant
TableVariant(b) ==
  CASE b = Ch.quest -> "GetHaltReason"
    [] b = Ch.g -> "ReadRegisters"
    [] b = Ch.G -> "WriteRegisters"
    [] b = Ch.k -> "Kill"
    [] b = Ch.m -> "ReadMem"
    [] b = Ch.M -> "WriteMem"
    [] b = Ch.H -> "SetThread"
    [] b = Ch.c -> "Continue"
    [] b = Ch.s -> "Step"
    [] OTHER -> "None"

\* C15: for every non-empty body handed to Command::parse, the call returns
\* the variant the table assigns to the first byte, or Malformed, or
\* Unsupported; it returns no other variant and it does not abort.
C15_ParserTotal ==
  (pc = "parse" /\ buf # <<>>) =>
    LET r == CommandParse(buf, hostBigEndian)
    IN  \/ r.tag \in {"Malformed", "Unsupported"}
        \/ r.tag = "Ok" /\ r.cmd.kind = TableVariant(buf[1])

\* the reply `+` `$S05#b8`
TrapReply == <<Ch.plus, Ch.dollar, Ch.S, Ch.d0, Ch.d5, Ch.hash, 98, 56>>

\* what poll does with a packet that resumes the target through the adapter
\* operation op, while the channel works: nothing but the ACK is written
\* before the call, the call is made once, and the reply is `$S05#b8`
ResumesThrough(op) ==
  /\ calls \in { <<>>, <<Call(op)>> }
  /\ (calls = <<>> => out \in { <<>>, <<Ch.plus>> })
  /\ Len(out) <= Len(TrapReply)
  /\ out = SubSeq(TrapReply, 1, Len(out))
  /\ result = Running
  /\ (pc = "top" => calls = <<Call(op)>> /\ out = TrapReply)

C17_WriteRegisters ==
  [][ /\ (pc = "handle" /\ cmd.kind = "WriteRegisters") =>
           /\ calls' = << [op |-> "write_registers", arg |-> target_regs'] >>
           /\ RegBytesFrom(target_regs', 1, I386BigEndian) = cmd.raw
           /\ installed' = cmd.raw
           /\ pc' = "wr_dollar"
      /\ (pc # "handle" /\ cmd.kind = "WriteRegisters" /\ cmd' = cmd) =>
           calls' = calls
      /\ (cmd.kind = "WriteRegisters" /\ pc = "wr_ck" /\ pc' = "top") =>
           out' = OkReply
      /\ (cmd.kind = "ReadRegisters" /\ pc = "wr_ck" /\ pc' = "top" /\ installed # <<>>) =>
           Slice(out', 3, Len(out') - 3) = HexTextFlat(installed)
    ]_vars

\* C18: hex_decode_in_place applied to what write_all_hex wrote for a byte
\* sequence succeeds and returns that byte sequence.
C18_HexRoundTrip ==
  (hex.stage = "decoded") => (hex.ok /\ hex.decoded = hex.input)

C18_Witness ==
  /\ hex.stage = "decoded"
  /\ hex.input = <<171, 10, 255>>
  /\ hex.text = <<97, 98, 48, 97, 102, 102>>
  /\ hex.decoded = <<171, 10, 255>>

\* the packet `$?#3f`
HaltQuery == <<Ch.dollar, Ch.quest, Ch.hash, 51, Ch.f>>

\* C19 as stated: after `$?#3f` the stub has written `+` and `$S00#b1`.
C19_HaltQuery ==
  (msg = HaltQuery /\ wire = <<>> /\ pc = "top") =>
    out = <<Ch.plus, Ch.dollar, Ch.S, Ch.d0, Ch.d0, Ch.hash, 98, Ch.d1>>

\* the reply `+` `$S00#b3`
HaltReply == <<Ch.plus, Ch.dollar, Ch.S, Ch.d0, Ch.d0, Ch.hash, 98, 51>>

\* C19 amended: after `$?#3f` the stub writes `+` and then exactly `$S00#b3`,
\* and nothing else.
C19_HaltQueryB3 ==
  (msg = HaltQuery /\ wire = <<>> /\ pc \notin {"body", "cksum"} /\ iofail = "none") =>
    /\ result = Running
    /\ calls = <<>>
    /\ Len(out) <= Len(HaltReply)
    /\ out = SubSeq(HaltReply, 1, Len(out))
    /\ (pc = "top" => out = HaltReply)

C19_Witness ==
  /\ msg = HaltQuery
  /\ wire = <<>>
  /\ pc = "top"
  /\ out = HaltReply

\* every read_mem call of the packet returned what DummyTarget returns
ActsAsDummy ==
  \A i \in 1..Len(calls) :
    calls[i].op = "read_mem" => calls[i].ret = DummyReadMem(calls[i].addr)

\* C20 as stated: `$m3e,4#c4` is accepted and, with the example target's
\* memory, answered with exactly `$9090#c1`.
C20_PartialRead ==
  ( /\ msg = Frame(PartialReadBody, <<Ch.c, 52>>)
    /\ wire = <<>>
    /\ pc \notin {"body", "cksum"}
    /\ ActsAsDummy
    /\ iofail = "none" ) =>
    /\ result = Running
    /\ (pc = "top" =>
          out = <<Ch.plus, Ch.dollar, 57, 48, 57, 48, Ch.hash, Ch.c, Ch.d1>>)

\* the reply `+` `$9090#d2`
PartialReply == <<Ch.plus, Ch.dollar, 57, 48, 57, 48, Ch.hash, 100, 50>>

\* C20 amended: `$m3e,4#65` is accepted and, with the example target's
\* memory, answered with exactly `$9090#d2`, after read_mem calls for 0x3e,
\* 0x3f and 0x40.
C20_PartialRead65 ==
  ( /\ msg = Frame(PartialReadBody, <<54, Ch.d5>>)
    /\ wire = <<>>
    /\ pc \notin {"body", "cksum"}
    /\ ActsAsDummy
    /\ iofail = "none" ) =>
    /\ result = Running
    /\ Len(out) <= Len(PartialReply)
    /\ out = SubSeq(PartialReply, 1, Len(out))
    /\ (pc = "top" =>
          /\ out = PartialReply
          /\ Len(calls) = 3
          /\ \A i \in 1..3 : calls[i].addr = USmall(61 + i, 8))

C20_Witness ==
  /\ msg = Frame(PartialReadBody, <<54, Ch.d5>>)
  /\ wire = <<>>
  /\ pc = "top"
  /\ ActsAsDummy
  /\ Len(calls) = 3
  /\ out = PartialReply

\* the bytes of the record before its i-th field in the image, counted from
\* the declaration: sixteen 4-byte integers, eight 10-byte ST registers,
\* eight 4-byte integers, eight 16-byte integers, one 4-byte integer
FieldOffset(i) ==
  IF i <= 16 THEN 4 * (i - 1)
  ELSE IF i <= 24 THEN 64 + 10 * (i - 17)
  ELSE IF i <= 32 THEN 144 + 4 * (i - 25)
  ELSE IF i <= 40 THEN 176 + 16 * (i - 33)
  ELSE 304

\* the response body is the lowercase hex text of the fields of regs in
\* declared order, the integers least significant byte first, the ST
\* registers as they are
FieldsInOrder(regs) ==
  \A i \in 1..41 :
    \A j \in 1..Len(regs[i]) :
      Slice(ResponseBody, 2 * (FieldOffset(i) + j) - 1, 2 * (FieldOffset(i) + j))
        = HexText(regs[i][j])

\* a `g` packet has been served
RegistersServed == pc = "top" /\ cmd.kind = "ReadRegisters"

\* C21 as stated: the body of the reply to `g` is the record's fields in
\* declared order, integers little-endian and ST registers raw, 304 bytes
\* written as 608 hex characters.
C21_RegisterImage ==
  RegistersServed =>
    /\ FieldsInOrder(target_regs)
    /\ Len(ResponseBody) = 608

\* C21 amended: the body of the reply to `g` is the record's fields in
\* declared order, integers little-endian and ST registers raw, 308 bytes
\* written as 616 hex characters.
C21_RegisterImage308 ==
  RegistersServed =>
    /\ FieldsInOrder(target_regs)
    /\ Len(ResponseBody) = 616
    /\ WellFramed(Tail(out))

C21_Witness ==
  /\ RegistersServed
  /\ target_regs = CountRegs
  /\ Len(out) = 621
  /\ Slice(ResponseBody, 1, 8) = <<49, 49, 49, 50, 49, 51, 49, 52>>

\* the fields of an `M addr,len:hexbytes` body: what stands before the first
\* separator, between the first two, and after the second
MFields(body) ==
  LET rest == Tail(body)
      p1   == FirstSep(rest, 1)
      p2   == IF p1 = 0 THEN 0 ELSE FirstSep(rest, p1 + 1)
  IN  [ complete |-> p1 # 0 /\ p2 # 0,
        addr |-> Slice(rest, 1, p1 - 1),
        len  |-> Slice(rest, p1 + 1, p2 - 1),
        data |-> Slice(rest, p2 + 1, Len(rest)) ]

IsHexText(s) == \A i \in 1..Len(s) : HexVal(s[i]) >= 0

RECURSIVE HexNumber(_)
\* the number a short string of hex digits denotes
HexNumber(s) ==
  IF s = <<>> THEN 0 ELSE 16 * HexNumber(SubSeq(s, 1, Len(s) - 1)) + HexVal(s[Len(s)])

\* bytes is the hex decoding of data: data is hex digits, and every pair of
\* them denotes the byte at its place (a last unpaired digit is dropped)
IsHexDecoding(bytes, data) ==
  /\ IsHexText(data)
  /\ Len(bytes) = Len(data) \div 2
  /\ \A i \in 1..Len(bytes) :
       bytes[i] = 16 * HexVal(data[2 * i - 1]) + HexVal(data[2 * i])

\* C22: a WriteMem { start, bytes } returned for an `M addr,len:hexbytes`
\* body has as many bytes as the len field announces, and bytes is the hex
\* decoding of the data field; a body whose data field decodes to another
\* number of bytes than len is answered Malformed.
C22_WriteMemParse ==
  LET f == MFields(MsgBody(msg))
  IN  /\ (pc = "handle" /\ cmd.kind = "WriteMem") =>
           /\ f.complete
           /\ Len(cmd.bytes) = HexNumber(f.len)
           /\ IsHexDecoding(cmd.bytes, f.data)
      /\ ( /\ WellFormedRead
           /\ Len(MsgBody(msg)) > 0
           /\ MsgBody(msg)[1] = Ch.M
           /\ f.complete
           /\ IsHexText(f.addr) /\ IsHexText(f.len) /\ IsHexText(f.data)
           /\ Len(f.addr) \in 1..16 /\ Len(f.len) \in 1..2
           /\ Len(f.data) \div 2 # HexNumber(f.len)
           /\ pc \notin {"ack", "parse"} ) =>
           (pc = "done" /\ (iofail = "none" => result = [kind |-> "Malformed"]))

\* C23: a WriteRegisters { raw } returned for a `G` packet has raw of the
\* encoded size of the target's register record; a `G` body whose image has
\* another length is not turned into WriteRegisters.
C23_RegisterImageLen ==
  /\ (cmd.kind = "WriteRegisters") => Len(cmd.raw) = RegImageLen
  /\ ( /\ WellFormedRead
       /\ Len(MsgBody(msg)) > 0
       /\ MsgBody(msg)[1] = Ch.G
       /\ (Len(MsgBody(msg)) - 1) \div 2 # RegImageLen
       /\ pc \notin {"ack", "parse"} ) =>
       cmd.kind # "WriteRegisters"

\* the debugger's packet is an `H` packet with a valid action character
HPacket ==
  /\ WellFormedRead
  /\ Len(MsgBody(msg)) >= 2
  /\ MsgBody(msg)[1] = Ch.H
  /\ MsgBody(msg)[2] \in {Ch.c, Ch.g}

\* the thread field of an `H` packet
HField == Slice(MsgBody(msg), 3, Len(MsgBody(msg)))

\* C24: for an `H` packet with a valid action character the field `-1`
\* yields All, the field `0` yields Any, any other hex string of non-zero
\* value n yields Thread(n), n being the value of the digits read most
\* significant digit first, and a field other than `0` of value zero, or one
\* that is not hex, is Malformed.
C24_ThreadIdParse ==
  (HPacket /\ pc \notin {"ack", "parse"} /\ iofail = "none") =>
    IF HField = <<Ch.minus, Ch.d1>> THEN cmd.kind = "SetThread" /\ cmd.thread = ThreadAll
    ELSE IF HField = <<Ch.d0>> THEN cmd.kind = "SetThread" /\ cmd.thread = ThreadAny
    ELSE IF HField # <<>> /\ IsHexText(HField) /\ HexNumber(HField) # 0
    THEN /\ cmd.kind = "SetThread"
         /\ cmd.thread = ThreadOf(USmall(HexNumber(HField), 4))
    ELSE pc = "done" /\ result = [kind |-> "Malformed"]

\* C25: a ResponseWriter that has written its `$` is finished before it is
\* dropped on every way out of the dispatch: the assertion of its Drop never
\* fails, also when a channel write fails in the middle of a response body.
C25_FramerFinalised ==
  /\ result # [kind |-> "Panic", why |-> "dropped ResponseWriter without calling finish"]
  /\ (pc = "done" /\ wr.kind = "rw" /\ result.kind # "Panic") => wr.finished

\* C26: when read_packet has succeeded, buf holds exactly the bytes the
\* debugger sent between the `$` and the first `#` after it: nothing of an
\* earlier packet, no `#`, and neither checksum digit.
C26_BufIsBody ==
  (pc \in {"ack", "parse"}) =>
    LET h == FirstByte(msg, Ch.hash, 1)
    IN  /\ IsPacket(msg)
        /\ wire = <<>>
        /\ h >= 2
        /\ Len(msg) = h + 2
        /\ buf = Slice(msg, 2, h - 1)
        /\ \A i \in 1..Len(buf) : buf[i] # Ch.hash

\* a `g` packet is about to be parsed after an earlier packet has run the
\* target
C26_Witness ==
  /\ pc = "parse"
  /\ msg = Frame(<<Ch.g>>, <<54, 55>>)
  /\ buf = <<Ch.g>>
  /\ target_regs = CountRegs

\* the reply `+` `$E00#a5`
ErrReply == <<Ch.plus, Ch.dollar, Ch.E, Ch.d0, Ch.d0, Ch.hash, 97, Ch.d5>>

\* C27: when write_mem returns Err for start+k while WriteMem { start, bytes }
\* is dispatched, the calls of the packet are write_mem for start, start+1,
\* ..., start+k in this order, each once and with its byte of bytes; the
\* first k returned Ok and nothing is called after the failed one to take
\* them back; the reply is `$E00#a5` whatever k is.
C27_PartialWrite ==
  (cmd.kind = "WriteMem" /\ HasErr(calls)) =>
    LET k == Len(calls) - 1
    IN  /\ k < Len(cmd.bytes)
        /\ \A i \in 1..(k + 1) :
             /\ calls[i].op = "write_mem"
             /\ calls[i].addr = UAdd(cmd.start, USmall(i - 1, 8))
             /\ calls[i].byte = cmd.bytes[i]
             /\ calls[i].ret = IF i <= k THEN 0 ELSE -1
        /\ \A i, j \in 1..(k + 1) : calls[i].addr = calls[j].addr => i = j
        /\ pc \in {"wr_dollar", "wr_body", "wr_hash", "wr_ck", "top", "done"}
        /\ Len(out) <= Len(ErrReply)
        /\ out = SubSeq(ErrReply, 1, Len(out))
        /\ (pc = "top" \/ iofail = "read" => out = ErrReply)
        /\ (pc = "done" => iofail # "none")

\* a two-byte write whose second byte failed has been answered
C27_Witness ==
  /\ pc = "top"
  /\ cmd.kind = "WriteMem"
  /\ Len(cmd.bytes) = 2
  /\ Len(calls) = 2
  /\ calls[1].ret = 0
  /\ calls[2].ret = -1
  /\ out = ErrReply

\* the adapter operation that belongs to a command; "none" when the command
\* is served without the adapter
OperationOf(c) ==
  CASE c.kind = "ReadRegisters"  -> "read_registers"
    [] c.kind = "ReadMem"        -> "read_mem"
    [] c.kind = "WriteMem"       -> "write_mem"
    [] c.kind = "Continue"       -> "cont"
    [] c.kind = "Kill"           -> "kill"
    [] c.kind = "Step"           -> "step"
    [] c.kind = "WriteRegisters" -> "write_registers"
    [] OTHER                     -> "none"

\* C28: a step of poll that calls the adapter makes one call, while a packet
\* is dispatched that was read completely with the checksum of its body,
\* was ACKed and parsed to a Command, and the call is the operation of that
\* command; no other step calls the adapter.
C28_AdapterOnlyInDispatch ==
  [][ (calls' # calls /\ calls' # <<>>) =>
        /\ Len(calls') = Len(calls) + 1
        /\ SubSeq(calls', 1, Len(calls)) = calls
        /\ WellFormedRead
        /\ out # <<>> /\ out[1] = Ch.plus
        /\ CommandParse(MsgBody(msg), hostBigEndian).tag = "Ok"
        /\ CommandParse(MsgBody(msg), hostBigEndian).cmd = cmd
        /\ pc \in {"handle", "rm_loop", "wm_loop"}
        /\ calls'[Len(calls')].op = OperationOf(cmd)
    ]_vars

\* read_registers has been called for a `g` packet and the reply is due
C28_Witness ==
  /\ pc = "wr_dollar"
  /\ cmd.kind = "ReadRegisters"
  /\ WellFormedRead
  /\ out = <<Ch.plus>>
  /\ Len(calls) = 1
  /\ calls[1].op = "read_registers"

====
